---- MODULE Spec2Model ----
(***************************************************************************)
(* Semantic analysis of the COOL compiler: the four visitors of            *)
(* src/compiler/utils/visitors_definitions.py (TypeCollectorVisitor,       *)
(* TypeInheritanceVisitor, TypeBuilderVisitor, TypeCheckerVisitor) over    *)
(* the registry programContext.                                            *)
(*                                                                         *)
(* Values.  A visit returns a type name, an `error` object or None; the    *)
(* three are records of one shape, [tag, name, pos]:                       *)
(*   Ty(n)      the type name n  (a Python str)                            *)
(*   Err(k, p)  an error of kind k at position p = <<line, column>>        *)
(*   None       Python's None                                              *)
(* An environment (a Python dict) is a function from names to type names.  *)
(* A dict is passed by reference, so every visit returns, beside its       *)
(* result, the dict it was given as the visit left it.                     *)
(*                                                                         *)
(* AST nodes are records with the field names of the source (clsname,      *)
(* idName, body, first, second, nestedLets, ...).  An expression node's    *)
(* (line, column) is <<line of the enclosing declaration, path>>: the root *)
(* expression has path 1 and the k-th child of the node with path p has    *)
(* path 10*p + k, so every node of a program has its own position.         *)
(***************************************************************************)
EXTENDS Integers, Sequences, FiniteSets, TLC

VARIABLES
    pc,            \* position of the driver / of the visitor under check
    class_list,    \* NodeProgram.class_list, the program handed to the passes
    types,         \* programContext.types, the registry
    line_and_col,  \* the side table returned by pass 1
    errors,        \* the diagnostics each pass returned, by pass
    ci,            \* pass 4: index of the class visit_NodeProgram is at
    visited,       \* pass 4: every (declaration, result) visit_NodeClass produced
    expr,          \* expression check: the expression node visited
    env0,          \* expression check: the environment handed to the visit
    out            \* expression check: what the visit returned, its dict, its log

vars == <<pc, class_list, types, line_and_col, errors, ci, visited, expr, env0, out>>

----------------------------------------------------------------------------
(* Bounds of the model.                                                    *)

MaxDecls == 2      \* passes 1-3: classes per program
MaxAttrs == 2      \* passes 1-3: attributes per class
MaxClasses == 2    \* pass 4: classes per program
MaxUnits == 3      \* pass 4: attribute and method declarations per program
MaxLets == 2       \* expression check: bindings of a chained let
MaxArgs == 2       \* expression check: arguments of a dispatch

----------------------------------------------------------------------------
(* Values.                                                                 *)

Ty(n) == [tag |-> "type", name |-> n, pos |-> <<0, 0>>]
Err(k, p) == [tag |-> "error", name |-> k, pos |-> p]
None == [tag |-> "none", name |-> "", pos |-> <<0, 0>>]

\* `type(result) is error`
IsError(r) == r.tag = "error"

\* dict.update({k: v}) on the dict e
Update(e, k, v) == [n \in DOMAIN e \cup {k} |-> IF n = k THEN v ELSE e[n]]

EmptyDict == [n \in {} |-> ""]

\* The filter `if type(x) is error` over a list of results.
OnlyErrors(s) == SelectSeq(s, IsError)

RECURSIVE Flatten(_)
Flatten(ss) == IF ss = <<>> THEN <<>> ELSE Head(ss) \o Flatten(Tail(ss))

----------------------------------------------------------------------------
(* programContext, the registry.  Its code is not among the sources; it is *)
(* modelled from the specification, sections 3 and 4.1.                    *)
(* A registry is [order, info]: the names in insertion order (a Python     *)
(* dict iterates in insertion order) and each name's ClassInfo.            *)

Primitives == {"Int", "Bool", "String"}

BuiltinInfo(n) == [parent |-> IF n = "Object" THEN "" ELSE "Object",
                   attrs |-> <<>>, methods |-> <<>>]

InitialTypes ==
    [order |-> <<"Object", "Int", "Bool", "String">>,
     info |-> [n \in {"Object"} \cup Primitives |-> BuiltinInfo(n)]]

Known(reg, n) == n \in DOMAIN reg.info

\* createType(decl): DuplicateType if the name exists or is reserved.
createType(reg, node) ==
    IF Known(reg, node.idName)
    THEN [reg |-> reg, res |-> Err("DuplicateType", <<node.line, 0>>)]
    ELSE [reg |-> [order |-> Append(reg.order, node.idName),
                   info |-> [n \in DOMAIN reg.info \cup {node.idName} |->
                               IF n = node.idName
                               THEN [parent |-> node.parent, attrs |-> <<>>,
                                     methods |-> <<>>]
                               ELSE reg.info[n]]],
          res |-> None]

\* getType(name, pos): UnknownType if absent.
getType(reg, n, p) == IF Known(reg, n) THEN Ty(n) ELSE Err("UnknownType", p)

\* The parent chain of n, n excluded, at most `fuel` links long (a chain
\* that an unvalidated hierarchy makes cyclic is cut).
RECURSIVE Chain(_, _, _)
Chain(reg, n, fuel) ==
    IF fuel = 0 \/ ~Known(reg, n) \/ reg.info[n].parent = "" THEN <<>>
    ELSE <<reg.info[n].parent>> \o Chain(reg, reg.info[n].parent, fuel - 1)

Ancestors(reg, n) ==
    LET c == Chain(reg, n, Len(reg.order)) IN {c[i] : i \in DOMAIN c}

\* Conformance: A conforms to B iff A = B or B is an ancestor of A.
Conforms(reg, a, b) == a = b \/ b \in Ancestors(reg, a)

\* relateInheritance(child, parentName, pos): InvalidParent if the parent is
\* unknown, primitive, or reaches child again.
relateInheritance(reg, child, parentName, p) ==
    IF \/ ~Known(reg, parentName)
       \/ parentName \in Primitives
       \/ parentName = child
       \/ child \in Ancestors(reg, parentName)
    THEN Err("InvalidParent", p)
    ELSE None

\* Attributes visible on n: inherited first, own last.
VisibleAttrs(reg, n) ==
    LET c == Chain(reg, n, Len(reg.order))
        up == [i \in DOMAIN c |->
                 IF Known(reg, c[Len(c) + 1 - i])
                 THEN reg.info[c[Len(c) + 1 - i]].attrs ELSE <<>>]
    IN Flatten(up) \o (IF Known(reg, n) THEN reg.info[n].attrs ELSE <<>>)

HasName(s, n) == \E i \in DOMAIN s : s[i].idName = n

\* defineAttrInType(owner, attr): DuplicateAttribute if the owner declares
\* or inherits the name; else the attribute is stored with its declared type.
defineAttrInType(reg, owner, node) ==
    IF HasName(VisibleAttrs(reg, owner), node.idName)
    THEN [reg |-> reg, res |-> Err("DuplicateAttribute", <<node.line, 0>>)]
    ELSE [reg |-> [reg EXCEPT !.info[owner].attrs =
                       Append(@, [idName |-> node.idName, _type |-> node._type])],
          res |-> None]

Signature(node) ==
    [idName |-> node.idName,
     formals |-> [i \in DOMAIN node.formal_param_list |->
                     node.formal_param_list[i]._type],
     returnType |-> node.returnType]

\* The method named m that n declares or inherits, most derived first.
FindMethod(reg, n, m) ==
    LET c == <<n>> \o Chain(reg, n, Len(reg.order))
        all == Flatten([i \in DOMAIN c |->
                          IF Known(reg, c[i]) THEN reg.info[c[i]].methods ELSE <<>>])
        hit == SelectSeq(all, LAMBDA s : s.idName = m)
    IN IF hit = <<>> THEN <<>> ELSE <<Head(hit)>>

\* defineMethod(owner, decl): DuplicateMethod locally, InvalidOverride if an
\* ancestor has the name with another signature.
defineMethod(reg, owner, node) ==
    LET inherited == IF reg.info[owner].parent = "" THEN <<>>
                     ELSE FindMethod(reg, reg.info[owner].parent, node.idName)
    IN IF HasName(reg.info[owner].methods, node.idName)
       THEN [reg |-> reg, res |-> Err("DuplicateMethod", <<node.line, 0>>)]
       ELSE IF inherited # <<>> /\ inherited[1] # Signature(node)
       THEN [reg |-> reg, res |-> Err("InvalidOverride", <<node.line, 0>>)]
       ELSE [reg |-> [reg EXCEPT !.info[owner].methods = Append(@, Signature(node))],
             res |-> None]

----------------------------------------------------------------------------
(* Pass 1, TypeCollectorVisitor.                                           *)

\* visit_NodeClass: the new context result of createType.
Collector_visit_NodeClass(reg, node) == createType(reg, node)

\* The loop of visit_NodeProgram from class i on; st = [reg, errors, line_and_col].
RECURSIVE CollectFrom(_, _, _)
CollectFrom(st, classes, i) ==
    IF i > Len(classes) THEN st
    ELSE LET nodeClass == classes[i]
             lac == Update(st.line_and_col, nodeClass.idName, <<nodeClass.line, 0>>)
             r == Collector_visit_NodeClass(st.reg, nodeClass)
         IN CollectFrom([reg |-> r.reg,
                         errors |-> IF r.res # None THEN Append(st.errors, r.res)
                                    ELSE st.errors,
                         line_and_col |-> lac],
                        classes, i + 1)

\* visit_NodeProgram: returns errors, line_and_col (and leaves the registry).
Collector_visit_NodeProgram(reg, classes) ==
    CollectFrom([reg |-> reg, errors |-> <<>>, line_and_col |-> EmptyDict], classes, 1)

----------------------------------------------------------------------------
(* Pass 2, TypeInheritanceVisitor.                                         *)

\* line_and_col_dict.get(_type, (0,0))
DictGet(d, k, default) == IF k \in DOMAIN d THEN d[k] ELSE default

visitForInherit(reg, _type, lc) ==
    relateInheritance(reg, _type, reg.info[_type].parent, lc)

Inheritance_visit_NodeProgram(reg, line_and_col_dict) ==
    LET results == [i \in DOMAIN reg.order |->
                      IF reg.order[i] # "Object"
                      THEN visitForInherit(reg, reg.order[i],
                                           DictGet(line_and_col_dict, reg.order[i], <<0, 0>>))
                      ELSE None]
    IN OnlyErrors(results)

----------------------------------------------------------------------------
(* Pass 3, TypeBuilderVisitor.  Each visit returns [reg, errors].          *)

Builder_visit_NodeAttr(reg, currentTypeName, node) ==
    LET resultOp == defineAttrInType(reg, currentTypeName, node)
    IN [reg |-> resultOp.reg,
        errors |-> IF IsError(resultOp.res) THEN <<resultOp.res>> ELSE <<>>]

Builder_visit_NodeClassMethod(reg, currentTypeName, node) ==
    LET formals == node.formal_param_list
        d == defineMethod(reg, currentTypeName, node)
    IN [reg |-> d.reg,
        errors |-> OnlyErrors(
            <<getType(reg, node.returnType, <<node.line, 0>>)>>
            \o [i \in DOMAIN formals |-> getType(reg, formals[i]._type, <<node.line, i>>)]
            \o <<d.res>>)]

\* NodeVisitor.visit on a declaration: the method named after its class.
Builder_visit(reg, currentTypeName, node) ==
    IF node.clsname = "NodeAttr"
    THEN Builder_visit_NodeAttr(reg, currentTypeName, node)
    ELSE Builder_visit_NodeClassMethod(reg, currentTypeName, node)

\* A loop `for n in nodes: errors += visit(n)` from node i on.  (Here and
\* in the other loops the state after a step is bound as the member of a
\* singleton, which computes it once.)
RECURSIVE BuildEach(_, _, _, _)
BuildEach(st, currentTypeName, nodes, i) ==
    IF i > Len(nodes) THEN st
    ELSE CHOOSE end \in
             {BuildEach([reg |-> r.reg, errors |-> st.errors \o r.errors],
                        currentTypeName, nodes, i + 1) :
                 r \in {Builder_visit(st.reg, currentTypeName, nodes[i])}} : TRUE

Builder_visit_NodeClass(reg, node) ==
    CHOOSE end \in
        {BuildEach(a, node.idName, node.methods, 1) :
            a \in {BuildEach([reg |-> reg, errors |-> <<>>],
                             node.idName, node.attributes, 1)}} : TRUE

RECURSIVE BuildFrom(_, _, _)
BuildFrom(st, classes, i) ==
    IF i > Len(classes) THEN st
    ELSE CHOOSE end \in
             {BuildFrom([reg |-> r.reg, errors |-> st.errors \o r.errors],
                        classes, i + 1) :
                 r \in {Builder_visit_NodeClass(st.reg, classes[i])}} : TRUE

Builder_visit_NodeProgram(reg, classes) ==
    BuildFrom([reg |-> reg, errors |-> <<>>], classes, 1)

----------------------------------------------------------------------------
(* programContext, the checks pass 4 calls (modelled from the              *)
(* specification, section 4.1).                                            *)

\* The key visit_NodeSelf reads.
WrapperKey == "wrapperType"

\* buildEnv(typeName): a fresh environment with the attributes visible on
\* typeName (own over inherited) and the self-type binding.
buildEnv(reg, typeName) ==
    LET a == VisibleAttrs(reg, typeName)
        own(n) == CHOOSE i \in DOMAIN a :
                      a[i].idName = n /\ \A j \in DOMAIN a : a[j].idName = n => j <= i
    IN [n \in {a[i].idName : i \in DOMAIN a} \cup {WrapperKey} |->
          IF n = WrapperKey THEN typeName ELSE a[own(n)]._type]

RECURSIVE AddFormals(_, _, _)
AddFormals(e, formals, i) ==
    IF i > Len(formals) THEN e
    ELSE AddFormals(Update(e, formals[i].idName, formals[i]._type), formals, i + 1)

\* buildEnvForMethod(methodDecl, env): a new environment, env extended with
\* the formals; DuplicateFormal if two formals share a name.
buildEnvForMethod(node, e) ==
    LET f == node.formal_param_list
    IN IF \E i, j \in DOMAIN f : i < j /\ f[i].idName = f[j].idName
       THEN [res |-> Err("DuplicateFormal", <<node.line, 0>>), env |-> e]
       ELSE [res |-> None, env |-> AddFormals(e, f, 1)]

\* searchValue(node, env): the binding of the name, UnknownVariable if absent.
searchValue(node, e, p) ==
    IF node.idName \in DOMAIN e THEN Ty(e[node.idName])
    ELSE Err("UnknownVariable", p)

\* checkAssign as visit_NodeLet calls it (name, declared type, expression
\* type, position): the expression type must conform to the declared type.
checkAssignLet(reg, idName, declared, exprType, p) ==
    IF exprType.tag = "type" /\ Conforms(reg, exprType.name, declared)
    THEN Ty(declared) ELSE Err("TypeMismatch", p)

\* checkAssign as visit_NodeAssignment calls it (node, expression type,
\* environment): UnknownVariable if the target has no binding.
checkAssign(reg, node, exprType, e, p) ==
    IF node.idName \notin DOMAIN e THEN Err("UnknownVariable", p)
    ELSE IF exprType.tag = "type" /\ Conforms(reg, exprType.name, e[node.idName])
    THEN exprType ELSE Err("TypeMismatch", p)

checkArithmetic(t1, t2, p) ==
    IF t1 = Ty("Int") /\ t2 = Ty("Int") THEN Ty("Int") ELSE Err("TypeMismatch", p)

checkEqualOp(t1, t2, p) ==
    IF t1 = t2 \/ (t1.name \notin Primitives /\ t2.name \notin Primitives)
    THEN Ty("Bool") ELSE Err("IllegalComparison", p)

checkDynamicDispatch(reg, typeExpr, method, argTypes, p) ==
    LET m == FindMethod(reg, typeExpr.name, method)
    IN IF m = <<>> THEN Err("UnknownMethod", p)
       ELSE IF Len(m[1].formals) # Len(argTypes) THEN Err("ArityMismatch", p)
       ELSE IF \E i \in DOMAIN argTypes :
                  ~Conforms(reg, argTypes[i].name, m[1].formals[i])
       THEN Err("ArgumentTypeMismatch", p)
       ELSE Ty(m[1].returnType)

checkReturnType(reg, node, typeResult) ==
    IF typeResult.tag = "type" /\ Conforms(reg, typeResult.name, node.returnType)
    THEN Ty(node.returnType) ELSE Err("ReturnTypeMismatch", <<node.line, 0>>)

----------------------------------------------------------------------------
(* Pass 4, TypeCheckerVisitor: the expression visits.                      *)
(* Visit(reg, node, previousEnv, p) is self.visit(node, previousEnv=...)   *)
(* of the node at position p; it returns                                   *)
(*   res  the value returned,                                              *)
(*   env  the dict previousEnv as the visit left it,                       *)
(*   log  the visits made, in order: [clsname, pos, env, res], env the    *)
(*        dict as it was when that visit began, res what it returned.      *)

ArithmeticNodes == {"NodeAddition", "NodeSubtraction", "NodeDivision",
                    "NodeMultiplication"}

BinaryNodes == ArithmeticNodes \cup {"NodeEqual"}

Child(p, k) == <<p[1], 10 * p[2] + k>>

Entry(node, e, p, r) == [clsname |-> node.clsname, pos |-> p, env |-> e, res |-> r]

RECURSIVE Visit(_, _, _, _)
RECURSIVE LetLoop(_, _, _, _, _, _, _)
RECURSIVE ArgLoop(_, _, _, _, _, _, _)

visit_NodeLet(reg, node, previousEnv, p) ==
    LET b == Visit(reg, node.body, previousEnv, Child(p, 1))
        exprType == b.res
        updated == Update(b.env, node.idName, node.type)
    IN IF IsError(exprType)
       THEN [res |-> exprType, env |-> b.env, log |-> b.log]
       ELSE [res |-> checkAssignLet(reg, node.idName, updated[node.idName],
                                    exprType, Child(p, 1)),
             env |-> updated, log |-> b.log]

\* The loop over node.nestedLets from binding i on, then the body.  newEnv
\* is the dict the previous iteration left (unbound before the first).
LetLoop(reg, node, previousEnv, p, i, newEnv, log) ==
    IF i > Len(node.nestedLets)
    THEN LET b == Visit(reg, node.body, newEnv, Child(p, i))
         IN [res |-> b.res, env |-> previousEnv, log |-> log \o b.log]
    ELSE LET nodeLet == node.nestedLets[i]
             copy == previousEnv
             r == Visit(reg, nodeLet, copy, Child(p, i))
         IN IF IsError(r.res)
            THEN [res |-> r.res, env |-> previousEnv, log |-> log \o r.log]
            ELSE LetLoop(reg, node, previousEnv, p, i + 1,
                         Update(r.env, nodeLet.idName, r.res.name), log \o r.log)

visit_NodeLetComplex(reg, node, previousEnv, p) ==
    LetLoop(reg, node, previousEnv, p, 1, previousEnv, <<>>)

visit_NodeAssignment(reg, node, previousEnv, p) ==
    LET r == Visit(reg, node.expr, previousEnv, Child(p, 1))
    IN IF IsError(r.res) THEN r
       ELSE [res |-> checkAssign(reg, node, r.res, r.env, p),
             env |-> r.env, log |-> r.log]

visit_NodeBinaryOperation(reg, node, previousEnv, p) ==
    LET f == Visit(reg, node.first, previousEnv, Child(p, 1))
        s == Visit(reg, node.second, f.env, Child(p, 2))
        typeFirstExpr == f.res
        typeSecondExpr == s.res
    IN [res |-> IF IsError(typeFirstExpr) THEN typeFirstExpr
                ELSE IF IsError(typeSecondExpr) THEN typeSecondExpr
                ELSE IF node.clsname \in ArithmeticNodes
                THEN checkArithmetic(typeFirstExpr, typeSecondExpr, p)
                ELSE IF node.clsname = "NodeEqual"
                THEN checkEqualOp(typeFirstExpr, typeSecondExpr, p)
                ELSE None,
        env |-> s.env,
        log |-> f.log \o s.log]

visit_NodeNewObject(reg, node, p) ==
    LET result == getType(reg, node.type, p)
    IN IF IsError(result) THEN result ELSE Ty(node.type)

visit_NodeBooleanComplement(node) == Ty("Bool")

visit_NodeObject(node, previousEnv, p) == searchValue(node, previousEnv, p)

visit_NodeSelf(previousEnv) == Ty(previousEnv[WrapperKey])

\* The loop over node.arguments from argument i on, then the dispatch check.
ArgLoop(reg, node, typeExpr, e, p, argTypes, log) ==
    LET i == Len(argTypes) + 1
    IN IF i > Len(node.arguments)
       THEN [res |-> checkDynamicDispatch(reg, typeExpr, node.method, argTypes, p),
             env |-> e, log |-> log]
       ELSE LET a == Visit(reg, node.arguments[i], e, Child(p, i + 1))
            IN IF IsError(a.res)
               THEN [res |-> a.res, env |-> a.env, log |-> log \o a.log]
               ELSE ArgLoop(reg, node, typeExpr, a.env, p,
                            Append(argTypes, a.res), log \o a.log)

visit_NodeDynamicDispatch(reg, node, previousEnv, p) ==
    LET r == Visit(reg, node.expr, previousEnv, Child(p, 1))
    IN IF IsError(r.res) THEN r
       ELSE ArgLoop(reg, node, r.res, r.env, p, <<>>, r.log)

\* NodeVisitor.visit: a binary operation by its base class, the rest by clsname.
Visit(reg, node, previousEnv, p) ==
    LET leaf(r) == [res |-> r, env |-> previousEnv,
                    log |-> <<Entry(node, previousEnv, p, r)>>]
        inner(r) == [res |-> r.res, env |-> r.env,
                     log |-> <<Entry(node, previousEnv, p, r.res)>> \o r.log]
    IN CASE node.clsname \in BinaryNodes ->
                inner(visit_NodeBinaryOperation(reg, node, previousEnv, p))
         [] node.clsname = "NodeString" -> leaf(Ty("String"))
         [] node.clsname = "NodeInteger" -> leaf(Ty("Int"))
         [] node.clsname = "NodeBoolean" -> leaf(Ty("Bool"))
         [] node.clsname = "NodeBooleanComplement" ->
                leaf(visit_NodeBooleanComplement(node))
         [] node.clsname = "NodeObject" -> leaf(visit_NodeObject(node, previousEnv, p))
         [] node.clsname = "NodeSelf" -> leaf(visit_NodeSelf(previousEnv))
         [] node.clsname = "NodeNewObject" -> leaf(visit_NodeNewObject(reg, node, p))
         [] node.clsname = "NodeLet" -> inner(visit_NodeLet(reg, node, previousEnv, p))
         [] node.clsname = "NodeLetComplex" ->
                inner(visit_NodeLetComplex(reg, node, previousEnv, p))
         [] node.clsname = "NodeAssignment" ->
                inner(visit_NodeAssignment(reg, node, previousEnv, p))
         [] node.clsname = "NodeDynamicDispatch" ->
                inner(visit_NodeDynamicDispatch(reg, node, previousEnv, p))

----------------------------------------------------------------------------
(* Pass 4, TypeCheckerVisitor: declarations, classes, the program.         *)

Checker_visit_NodeAttr(reg, node, previousEnv) ==
    Visit(reg, node.expr, previousEnv, <<node.line, 1>>)

Checker_visit_NodeClassMethod(reg, node, previousEnv) ==
    LET newEnv == buildEnvForMethod(node, previousEnv)
        typeResult == Visit(reg, node.body, newEnv.env, <<node.line, 1>>)
    IN IF IsError(newEnv.res)
       THEN [res |-> newEnv.res, env |-> previousEnv, log |-> <<>>]
       ELSE IF IsError(typeResult.res)
       THEN [res |-> typeResult.res, env |-> previousEnv, log |-> typeResult.log]
       ELSE [res |-> checkReturnType(reg, node, typeResult.res),
             env |-> previousEnv, log |-> typeResult.log]

\* `if type(result) is error: errors.append(result)`
AppendIfError(errs, result) == IF IsError(result) THEN Append(errs, result) ELSE errs

\* NodeVisitor.visit on a declaration: the method named after its class.
Checker_visit(reg, node, previousEnv) ==
    IF node.clsname = "NodeAttr"
    THEN Checker_visit_NodeAttr(reg, node, previousEnv)
    ELSE Checker_visit_NodeClassMethod(reg, node, previousEnv)

\* One of the two loops of visit_NodeClass, from node i on.  st is
\* [errors, env, visited]: the list so far, the dict previousEnv as the
\* visits left it, and every (declaration, result) so far.
RECURSIVE CheckEach(_, _, _, _)
CheckEach(reg, st, nodes, i) ==
    IF i > Len(nodes) THEN st
    ELSE LET r == Checker_visit(reg, nodes[i], st.env)
         IN CheckEach(reg,
                      [errors |-> AppendIfError(st.errors, r.res),
                       env |-> r.env,
                       visited |-> Append(st.visited,
                                          [line |-> nodes[i].line, res |-> r.res,
                                           log |-> r.log])],
                      nodes, i + 1)

\* visit_NodeClass leaving at the first attribute diagnostic.
Checker_visit_NodeClass_FailFast(reg, node, previousEnv) ==
    CHOOSE end \in
        {IF a.errors # <<>> THEN a ELSE CheckEach(reg, a, node.methods, 1) :
            a \in {CheckEach(reg,
                       [errors |-> <<>>, env |-> previousEnv, visited |-> <<>>],
                       node.attributes, 1)}} : TRUE

Checker_visit_NodeClass(reg, node, previousEnv) ==
    CHOOSE end \in
        {CheckEach(reg, a, node.methods, 1) :
            a \in {CheckEach(reg,
                       [errors |-> <<>>, env |-> previousEnv, visited |-> <<>>],
                       node.attributes, 1)}} : TRUE

\* One iteration of the loop of visit_NodeProgram: errors += self.visit(nodeClass, ...)
Checker_ProgramStep(reg, errs, nodeClass) ==
    LET environment == buildEnv(reg, nodeClass.idName)
        r == Checker_visit_NodeClass(reg, nodeClass, environment)
    IN [errors |-> errs \o r.errors, visited |-> r.visited]

----------------------------------------------------------------------------
(* AST nodes.                                                              *)

NodeInteger == [clsname |-> "NodeInteger"]
NodeString == [clsname |-> "NodeString"]
NodeSelf == [clsname |-> "NodeSelf"]
NodeObject(n) == [clsname |-> "NodeObject", idName |-> n]
NodeNewObject(t) == [clsname |-> "NodeNewObject", type |-> t]
NodeBinary(op, a, b) == [clsname |-> op, first |-> a, second |-> b]
NodeBooleanComplement(e) == [clsname |-> "NodeBooleanComplement", expr |-> e]
NodeLet(n, t, b) == [clsname |-> "NodeLet", idName |-> n, type |-> t, body |-> b]
NodeLetComplex(lets, b) == [clsname |-> "NodeLetComplex", nestedLets |-> lets, body |-> b]
NodeAssignment(n, e) == [clsname |-> "NodeAssignment", idName |-> n, expr |-> e]
NodeDynamicDispatch(e, m, args) ==
    [clsname |-> "NodeDynamicDispatch", expr |-> e, method |-> m, arguments |-> args]

NodeAttr(n, t, e) ==
    [clsname |-> "NodeAttr", idName |-> n, _type |-> t, expr |-> e, line |-> 0]
NodeFormal(n, t) == [idName |-> n, _type |-> t]
NodeClassMethod(n, formals, t, b) ==
    [clsname |-> "NodeClassMethod", idName |-> n, formal_param_list |-> formals,
     returnType |-> t, body |-> b, line |-> 0]
NodeClass(n, parent, attrs, meths) ==
    [idName |-> n, parent |-> parent, attributes |-> attrs, methods |-> meths,
     line |-> 0]

\* Source lines: class i is at line 100*i, its j-th attribute at 100*i + j,
\* its j-th method at 100*i + 50 + j.
Located(classes) ==
    [i \in DOMAIN classes |->
        [classes[i] EXCEPT
            !.line = 100 * i,
            !.attributes = [j \in DOMAIN @ |-> [@[j] EXCEPT !.line = 100 * i + j]],
            !.methods = [j \in DOMAIN @ |-> [@[j] EXCEPT !.line = 100 * i + 50 + j]]]]

SeqsUpTo(S, n) == UNION {[1..k -> S] : k \in 0..n}

----------------------------------------------------------------------------
(* Passes 1 to 3 over the programs of DeclPrograms (specification Spec).   *)

DeclAttrs ==
    {NodeAttr("x", "Int", NodeInteger), NodeAttr("x", "Foo", NodeInteger),
     NodeAttr("y", "Foo", NodeInteger)}

DeclMethods ==
    {NodeClassMethod("m", <<>>, "Int", NodeInteger),
     NodeClassMethod("m", <<NodeFormal("p", "Foo")>>, "Foo", NodeInteger)}

\* The classes with at most a attributes (and at most one method).
DeclClasses(a) ==
    {NodeClass(n, parent, attrs, meths) :
        n \in {"A", "B"}, parent \in {"Object", "Int", "A"},
        attrs \in SeqsUpTo(DeclAttrs, a), meths \in SeqsUpTo(DeclMethods, 1)}

\* The programs of 1 to k classes with at most a attributes each.
DeclPrograms(k, a) == {Located(p) : p \in SeqsUpTo(DeclClasses(a), k) \ {<<>>}}

NoErrors == [p1 |-> <<>>, p2 |-> <<>>, p3 |-> <<>>, p4 |-> <<>>]

NoOut == [res |-> None, env |-> EmptyDict, log |-> <<>>]

Init ==
    /\ pc = "collect"
    /\ class_list \in DeclPrograms(MaxDecls, MaxAttrs)
    /\ types = InitialTypes
    /\ line_and_col = EmptyDict
    /\ errors = NoErrors
    /\ ci = 0
    /\ visited = <<>>
    /\ expr = NodeInteger
    /\ env0 = EmptyDict
    /\ out = NoOut

\* TypeCollectorVisitor().visit(program)
TypeCollector ==
    /\ pc = "collect"
    /\ LET r == Collector_visit_NodeProgram(types, class_list)
       IN /\ types' = r.reg
          /\ line_and_col' = r.line_and_col
          /\ errors' = [errors EXCEPT !.p1 = r.errors]
    /\ pc' = "inherit"
    /\ UNCHANGED <<class_list, ci, visited, expr, env0, out>>

\* TypeInheritanceVisitor().visit(program, line_and_col)
TypeInheritance ==
    /\ pc = "inherit"
    /\ errors' = [errors EXCEPT !.p2 = Inheritance_visit_NodeProgram(types, line_and_col)]
    /\ pc' = "build"
    /\ UNCHANGED <<class_list, types, line_and_col, ci, visited, expr, env0, out>>

\* TypeBuilderVisitor().visit(program)
TypeBuilder ==
    /\ pc = "build"
    /\ LET r == Builder_visit_NodeProgram(types, class_list)
       IN /\ types' = r.reg
          /\ errors' = [errors EXCEPT !.p3 = r.errors]
    /\ pc' = "built"
    /\ UNCHANGED <<class_list, line_and_col, ci, visited, expr, env0, out>>

Next == TypeCollector \/ TypeInheritance \/ TypeBuilder

Spec == Init /\ [][Next]_vars

----------------------------------------------------------------------------
(* Pass 4 over the programs of CheckPrograms (specification SpecCheck).    *)
(* The registry pass 4 starts from is the one passes 1 to 3 leave.         *)

RegistryAfterBuild(classes) ==
    Builder_visit_NodeProgram(
        Collector_visit_NodeProgram(InitialTypes, classes).reg, classes).reg

CheckInitializers == {NodeInteger, NodeString, NodeObject("z")}

\* A method without fault, one with a duplicate formal, one whose body
\* fails, one whose body does not conform to the return type.
CheckMethods ==
    {NodeClassMethod("m", <<NodeFormal("p", "Int")>>, "Int", NodeObject("p")),
     NodeClassMethod("m", <<NodeFormal("p", "Int"), NodeFormal("p", "Int")>>, "Int",
                     NodeInteger),
     NodeClassMethod("m", <<>>, "Int", NodeObject("z")),
     NodeClassMethod("m", <<>>, "Int", NodeString)}

Bodies(u) ==
    {b \in [attributes : SeqsUpTo(CheckInitializers, u),
            methods : SeqsUpTo(CheckMethods, u)] :
        Len(b.attributes) + Len(b.methods) <= u}

\* The sequences of at most k class bodies with at most u declarations in all.
RECURSIVE BodiesOf(_, _)
BodiesOf(k, u) ==
    IF k = 0 THEN {<<>>}
    ELSE {<<>>} \cup
         UNION {{<<b>> \o p :
                    p \in BodiesOf(k - 1, u - Len(b.attributes) - Len(b.methods))} :
                b \in Bodies(u)}

\* Class i is C<i>, its attributes x1, x2, ... of type Int, its methods m1, m2, ...
CheckProgram(bodies) ==
    Located([i \in DOMAIN bodies |->
        NodeClass("C" \o ToString(i), "Object",
                  [j \in DOMAIN bodies[i].attributes |->
                      NodeAttr("x" \o ToString(j), "Int", bodies[i].attributes[j])],
                  [j \in DOMAIN bodies[i].methods |->
                      [bodies[i].methods[j] EXCEPT !.idName = "m" \o ToString(j)]])])

\* The programs of 1 to k classes with at most u declarations in all.
CheckPrograms(k, u) == {CheckProgram(b) : b \in BodiesOf(k, u) \ {<<>>}}

InitCheck ==
    /\ pc = "check"
    /\ class_list \in CheckPrograms(MaxClasses, MaxUnits)
    /\ types = RegistryAfterBuild(class_list)
    /\ line_and_col = Collector_visit_NodeProgram(InitialTypes, class_list).line_and_col
    /\ errors = NoErrors
    /\ ci = 1
    /\ visited = <<>>
    /\ expr = NodeInteger
    /\ env0 = EmptyDict
    /\ out = NoOut

\* TypeCheckerVisitor.visit_NodeProgram: one iteration of its loop.
CheckClass ==
    /\ pc = "check"
    /\ ci <= Len(class_list)
    /\ LET r == Checker_ProgramStep(types, errors.p4, class_list[ci])
       IN /\ errors' = [errors EXCEPT !.p4 = r.errors]
          /\ visited' = visited \o r.visited
    /\ ci' = ci + 1
    /\ UNCHANGED <<pc, class_list, types, line_and_col, expr, env0, out>>

\* TypeCheckerVisitor.visit_NodeProgram: `return errors`.
CheckReturn ==
    /\ pc = "check"
    /\ ci > Len(class_list)
    /\ pc' = "checked"
    /\ UNCHANGED <<class_list, types, line_and_col, errors, ci, visited, expr, env0, out>>

NextCheck == CheckClass \/ CheckReturn

SpecCheck == InitCheck /\ [][NextCheck]_vars

----------------------------------------------------------------------------
(* One expression visit (specification SpecExpr): an expression of         *)
(* Expressions checked inside class A, as an attribute initializer         *)
(* (environment buildEnv) or as the body of m (buildEnvForMethod).         *)

ExprClass ==
    NodeClass("A", "Object",
              <<NodeAttr("x", "Int", NodeInteger), NodeAttr("y", "Foo", NodeInteger)>>,
              <<NodeClassMethod("m", <<NodeFormal("p", "Int")>>, "Int", NodeInteger)>>)

ExprProgram == Located(<<ExprClass>>)

Atoms ==
    {NodeInteger, NodeString, NodeSelf, NodeNewObject("Foo"),
     NodeObject("a"), NodeObject("b"), NodeObject("y")}

LetIds == {"a", "b", WrapperKey}

LetTypes == {"Int", "Foo"}

\* A binding initialised by an atom or by an addition.
Inits == Atoms \cup {NodeBinary("NodeAddition", NodeObject("a"), NodeInteger)}

SimpleLets == {NodeLet(n, t, b) : n \in LetIds, t \in LetTypes, b \in Atoms}

Lets == {NodeLet(n, t, b) : n \in LetIds, t \in LetTypes, b \in Inits}

Operands == Atoms \cup SimpleLets

\* The expressions with at most n bindings in a chained let and at most k
\* arguments in a dispatch.
Expressions(n, k) ==
    Atoms
    \cup SimpleLets
    \cup {NodeBooleanComplement(e) : e \in Atoms}
    \cup {NodeAssignment(v, e) : v \in {"a", "x"}, e \in Atoms}
    \cup {NodeBinary(op, l, r) :
            op \in {"NodeAddition", "NodeEqual"}, l \in Operands, r \in Operands}
    \cup {NodeLetComplex(lets, b) :
            lets \in SeqsUpTo(Lets, n) \ {<<>>}, b \in Atoms}
    \cup {NodeDynamicDispatch(e, "m", args) :
            e \in {NodeSelf, NodeObject("b"), NodeInteger},
            args \in SeqsUpTo(Operands, k)}

RootPos == <<1, 1>>

InitExpr ==
    /\ pc = "expr"
    /\ class_list = ExprProgram
    /\ types = RegistryAfterBuild(class_list)
    /\ line_and_col = Collector_visit_NodeProgram(InitialTypes, class_list).line_and_col
    /\ errors = NoErrors
    /\ ci = 0
    /\ visited = <<>>
    /\ expr \in Expressions(MaxLets, MaxArgs)
    /\ env0 \in {buildEnv(types, "A"),
                 buildEnvForMethod(class_list[1].methods[1], buildEnv(types, "A")).env}
    /\ out = NoOut

\* self.visit(expr, previousEnv= env0)
VisitExpr ==
    /\ pc = "expr"
    /\ out' = Visit(types, expr, env0, RootPos)
    /\ pc' = "visited"
    /\ UNCHANGED <<class_list, types, line_and_col, errors, ci, visited, expr, env0>>

NextExpr == VisitExpr

SpecExpr == InitExpr /\ [][NextExpr]_vars

----------------------------------------------------------------------------
(* Properties of one expression visit (SpecExpr).                          *)

\* The visits of the node at position q.
EntriesAt(q) == {out.log[i] : i \in {j \in DOMAIN out.log : out.log[j].pos = q}}

\* The positions of the root's sub-expressions, in evaluation order.
RootChildren == {k \in 1..9 : EntriesAt(Child(RootPos, k)) # {}}

LetExample1 ==
    NodeLetComplex(<<NodeLet("a", "Int", NodeInteger),
                     NodeLet("b", "Int",
                             NodeBinary("NodeAddition", NodeObject("a"), NodeInteger))>>,
                   NodeObject("b"))

LetExample2 ==
    NodeLetComplex(<<NodeLet("a", "Int", NodeObject("a"))>>, NodeObject("a"))

\* C1: in a chained let the initializer of the i-th binding is checked in an
\* environment holding the outer bindings and the bindings 1..i-1 but not the
\* i-th, the body in one holding all the bindings; `let a: Int <- 1,
\* b: Int <- a + 1 in b` yields Int and `let a: Int <- a in a` yields
\* UnknownVariable.
C1_LetChainScoping ==
    (pc = "visited" /\ expr.clsname = "NodeLetComplex") =>
        LET lets == expr.nestedLets
            n == Len(lets)
        IN /\ \A i \in 1..n : \A e \in EntriesAt(Child(Child(RootPos, i), 1)) :
                /\ DOMAIN env0 \subseteq DOMAIN e.env
                /\ \A j \in 1..(i - 1) : lets[j].idName \in DOMAIN e.env
                /\ (/\ lets[i].idName \notin DOMAIN env0
                    /\ \A j \in 1..(i - 1) : lets[j].idName # lets[i].idName)
                   => lets[i].idName \notin DOMAIN e.env
           /\ \A e \in EntriesAt(Child(RootPos, n + 1)) :
                \A j \in 1..n : lets[j].idName \in DOMAIN e.env
           /\ expr = LetExample1 => out.res = Ty("Int")
           /\ expr = LetExample2 => (IsError(out.res) /\ out.res.name = "UnknownVariable")

\* C2: once a sub-expression of a node returns a diagnostic, no later
\* sub-expression of that node is evaluated and the node returns that
\* diagnostic (binary operation, dispatch, chained let).
C2_ShortCircuit ==
    pc = "visited" =>
        \A k \in RootChildren : \A e \in EntriesAt(Child(RootPos, k)) :
            IsError(e.res) =>
                /\ out.res = e.res
                /\ \A k2 \in RootChildren : k2 <= k

\* C3: a diagnostic of a sub-expression is never dropped: when an operand of
\* the root yields a diagnostic in the root's environment (the operand of a
\* boolean complement, or an evaluated operand of any other node), the root
\* yields a diagnostic.
C3_NoDroppedDiagnostic ==
    pc = "visited" =>
        /\ (/\ expr.clsname = "NodeBooleanComplement"
            /\ IsError(Visit(types, expr.expr, env0, Child(RootPos, 1)).res))
           => IsError(out.res)
        /\ expr.clsname \in BinaryNodes \cup {"NodeAssignment", "NodeDynamicDispatch"}
           => \A k \in RootChildren : \A e \in EntriesAt(Child(RootPos, k)) :
                 IsError(e.res) => IsError(out.res)

\* C4: a let never mutates the environment it was given, and every
\* sub-expression of a binary operation or dispatch sees the bindings the
\* node was entered with, whatever let was checked before it.
C4_SiblingScopes ==
    pc = "visited" =>
        /\ expr.clsname \in {"NodeLet", "NodeLetComplex"} => out.env = env0
        /\ expr.clsname \in BinaryNodes \cup {"NodeDynamicDispatch"}
           => \A k \in RootChildren : \A e \in EntriesAt(Child(RootPos, k)) :
                 e.env = env0

\* C6: every binding of every environment passed to a visit names a type of
\* the registry.
C6_EnvTypesRegistered ==
    \A i \in DOMAIN out.log : \A n \in DOMAIN out.log[i].env :
        Known(types, out.log[i].env[n])

\* C7: the self-type binding is in every environment passed to a visit and
\* is the enclosing class, so a self reference returns the class.
C7_SelfIsClass ==
    \A i \in DOMAIN out.log :
        /\ WrapperKey \in DOMAIN out.log[i].env
        /\ out.log[i].env[WrapperKey] = class_list[1].idName
        /\ out.log[i].clsname = "NodeSelf" => out.log[i].res = Ty(class_list[1].idName)

----------------------------------------------------------------------------
(* Properties of passes 1 to 3 (Spec).                                     *)

\* The number of entries of the list s that satisfy P.
Count(s, P(_)) == Cardinality({i \in DOMAIN s : P(s[i])})

\* C5: pass 3 resolves the declared type of every attribute and registers
\* it, and reports each failure: an attribute of unknown type contributes an
\* UnknownType diagnostic, and two diagnostics when its name is a duplicate
\* as well.
C5_AttrTypeResolved ==
    pc = "built" =>
        \A i \in DOMAIN class_list : \A j \in DOMAIN class_list[i].attributes :
            LET attr == class_list[i].attributes[j]
                unknown == ~Known(types, attr._type)
                duplicate == \E e \in {errors.p3[k] : k \in DOMAIN errors.p3} :
                                e.name = "DuplicateAttribute" /\ e.pos[1] = attr.line
            IN /\ unknown =>
                    \E e \in {errors.p3[k] : k \in DOMAIN errors.p3} :
                        e.name = "UnknownType" /\ e.pos[1] = attr.line
               /\ (unknown /\ duplicate) =>
                    Count(errors.p3, LAMBDA e : e.pos[1] = attr.line) = 2

\* C10: for a class name declared k times pass 1 returns k-1 DuplicateType
\* diagnostics, the registry retains the first declaration, and the side
\* table maps the name to the position of that first declaration.
C10_CollectorConsistent ==
    pc # "collect" =>
        \A i \in DOMAIN class_list :
            LET name == class_list[i].idName
                decls == {j \in DOMAIN class_list : class_list[j].idName = name}
                first == CHOOSE j \in decls : \A j2 \in decls : j <= j2
            IN /\ Count(errors.p1,
                        LAMBDA e : /\ e.name = "DuplicateType"
                                   /\ \E j \in decls : e.pos[1] = class_list[j].line)
                  = Cardinality(decls) - 1
               /\ types.info[name].parent = class_list[first].parent
               /\ line_and_col[name] = <<class_list[first].line, 0>>

----------------------------------------------------------------------------
(* Properties of pass 4 (SpecCheck).                                       *)

\* The declaration at a source line (see Located).
IsMethodLine(l) == l % 100 > 50
AttrAt(l) == class_list[l \div 100].attributes[l % 100]
MethodAt(l) == class_list[l \div 100].methods[(l % 100) - 50]

DeclLines(cls) ==
    [j \in DOMAIN cls.attributes |-> cls.attributes[j].line]
    \o [j \in DOMAIN cls.methods |-> cls.methods[j].line]

\* C8: pass 4 visits every attribute and every method of every class, each
\* contributes at most one diagnostic, and the list returned is, class by
\* class in declaration order, the diagnostics of the failing attributes
\* then those of the failing methods; a method fails with the diagnostic of
\* buildEnvForMethod (its body not evaluated), else that of its body, else
\* that of checkReturnType.
C8_ClassAggregation ==
    pc = "checked" =>
        /\ [i \in DOMAIN visited |-> visited[i].line]
             = Flatten([i \in DOMAIN class_list |-> DeclLines(class_list[i])])
        /\ errors.p4 = OnlyErrors([i \in DOMAIN visited |-> visited[i].res])
        /\ \A i \in DOMAIN visited : IsMethodLine(visited[i].line) =>
              LET v == visited[i]
                  m == MethodAt(v.line)
                  f == m.formal_param_list
              IN IF \E a, b \in DOMAIN f : a < b /\ f[a].idName = f[b].idName
                 THEN v.res = Err("DuplicateFormal", <<v.line, 0>>) /\ v.log = <<>>
                 ELSE /\ v.log # <<>>
                      /\ v.log[1].pos = <<v.line, 1>>
                      /\ IF IsError(v.log[1].res) THEN v.res = v.log[1].res
                         ELSE IF Conforms(types, v.log[1].res.name, m.returnType)
                         THEN ~IsError(v.res)
                         ELSE v.res = Err("ReturnTypeMismatch", <<v.line, 0>>)

\* Two classes; the attribute of the first fails, then its method on a
\* duplicate formal, then the method of the second on its return type.
C8_Witness ==
    /\ pc = "checked"
    /\ Len(class_list) = 2
    /\ Len(errors.p4) = 3
    /\ errors.p4[1] = Err("UnknownVariable", <<101, 1>>)
    /\ errors.p4[2] = Err("DuplicateFormal", <<151, 0>>)
    /\ errors.p4[3] = Err("ReturnTypeMismatch", <<251, 0>>)

\* C9: an attribute whose initializer has a type that does not conform to
\* the declared type of the attribute has a diagnostic in the list pass 4
\* returns.
C9_AttrConformance ==
    pc = "checked" =>
        \A i \in DOMAIN visited :
            LET v == visited[i]
            IN (/\ ~IsMethodLine(v.line)
                /\ v.res.tag = "type"
                /\ ~Conforms(types, v.res.name, AttrAt(v.line)._type))
               => \E k \in DOMAIN errors.p4 : errors.p4[k].pos[1] = v.line

====
